---- MODULE Spec2Model ----
(***************************************************************************)
(* Model of the audiobook organizer: the orchestrator loop of main.py,     *)
(* the status tracker of tracker.py and the folder-name synthesis of       *)
(* organizer.py.                                                           *)
(*                                                                         *)
(* Python strings are sequences of one-character strings.  A dict key that *)
(* may be missing is a record [has, s] (strings) or [has, n] (integers);   *)
(* a value that is "a string or a structure" carries a tag k.              *)
(***************************************************************************)
EXTENDS Integers, Sequences, FiniteSets, TLC

VARIABLES
    \* ---- orchestrator (main.py) ----
    pc,         \* position of main(): "idle" (no process), "loop", "decide", "copying"
                \* (inside organize_book), "copied", "open", "write", "done", "raised"
                \* (an exception left main()), "killed" (the process was killed)
    dry,        \* config.DRY_RUN of the current run
    idx,        \* position of the for loop in the scan
    scan,       \* scan_input_directory(INPUT_PATH): the folders in the order os.walk
                \* yields them, which the file system decides
    pending,    \* files of the folder in flight that organize_book has yet to copy
    tracker,    \* the in-memory tracker dict of the current run
    disk,       \* tracker.json: [valid, content]
    output,     \* files under OUTPUT_PATH: set of [dir, file]
    force,      \* folder -> .force_process exists in it
    resp,       \* folder -> [asked, doc]: what the resolver answers for it, once asked
    meta,       \* ai_metadata of the folder in flight
    clock,      \* datetime.utcnow(), a logical clock
    \* ---- history of the current run ----
    loaded,     \* the tracker as load_tracker() returned it
    outStart,   \* the output tree when the run started
    resolved,   \* folders the resolver was invoked for
    orgCalled,  \* folders organize_book was called for
    orgDone,    \* folders organize_book returned for
    rerun,      \* "live" / "dry": the previous process returned from such a run and the
                \* input tree is unchanged since; "no" otherwise
    \* ---- synthesizer harness (organizer.py as pure functions) ----
    sMeta,      \* the metadata document given to the synthesizer
    sPhase,     \* "input", "titled", "planned"
    sTitle,     \* result of format_title_folder(sMeta)
    sPlan       \* result of the path computation of organize_book(sMeta)

vars == <<pc, dry, idx, scan, pending, tracker, disk, output, force, resp, meta, clock,
          loaded, outStart, resolved, orgCalled, orgDone, rerun,
          sMeta, sPhase, sTitle, sPlan>>

orchVars == <<pc, dry, idx, scan, pending, tracker, disk, output, force, resp, meta, clock,
              loaded, outStart, resolved, orgCalled, orgDone, rerun>>

synthVars == <<sMeta, sPhase, sTitle, sPlan>>

----------------------------------------------------------------------------
\* Strings

\* longest string drawn for a free-text metadata field
MaxLen == 2

Alphabet == {"a", " ", "/", ":"}

Whitespace == {" "}

RECURSIVE StrsUpTo(_)
StrsUpTo(n) ==
    IF n = 0 THEN {<<>>}
    ELSE LET shorter == StrsUpTo(n - 1)
         IN  shorter \cup {Append(s, c) : s \in {t \in shorter : Len(t) = n - 1}, c \in Alphabet}

Strs == StrsUpTo(MaxLen)

\* a short pool for the fields that are varied together with a full one
SampleStrs == {<<>>, <<"a">>, <<" ", "/">>}

DigitChars == <<"0", "1", "2", "3", "4", "5", "6", "7", "8", "9">>

\* str(n) of a non-negative int
RECURSIVE IntToStr(_)
IntToStr(n) ==
    IF n < 10 THEN <<DigitChars[n + 1]>>
    ELSE IntToStr(n \div 10) \o <<DigitChars[(n % 10) + 1]>>

\* s.replace(old, new) for one-character old and new
Replace(s, old, new) == [i \in 1..Len(s) |-> IF s[i] = old THEN new ELSE s[i]]

RECURSIVE LStrip(_)
LStrip(s) == IF s # <<>> /\ Head(s) \in Whitespace THEN LStrip(Tail(s)) ELSE s

RECURSIVE RStrip(_)
RStrip(s) ==
    IF s # <<>> /\ s[Len(s)] \in Whitespace THEN RStrip(SubSeq(s, 1, Len(s) - 1)) ELSE s

\* s.strip()
Strip(s) == RStrip(LStrip(s))

\* organizer.sanitize
sanitize(s) == Strip(Replace(Replace(s, "/", "-"), ":", "-"))

\* sep.join(parts)
RECURSIVE Join(_, _)
Join(parts, sep) ==
    IF parts = <<>> THEN <<>>
    ELSE IF Len(parts) = 1 THEN parts[1]
    ELSE parts[1] \o sep \o Join(Tail(parts), sep)

----------------------------------------------------------------------------
\* Metadata documents

NoStr == [has |-> FALSE, s |-> <<>>]
SomeStr(s) == [has |-> TRUE, s |-> s]
NoInt == [has |-> FALSE, n |-> 0]
SomeInt(n) == [has |-> TRUE, n |-> n]

\* title / author: key missing, a plain string, or a structure
NoTitle == [k |-> "none", s |-> <<>>, main |-> NoStr, subtitle |-> NoStr]
StrTitle(s) == [k |-> "str", s |-> s, main |-> NoStr, subtitle |-> NoStr]
DictTitle(m, sub) == [k |-> "dict", s |-> <<>>, main |-> m, subtitle |-> sub]

NoAuthor == [k |-> "none", s |-> <<>>, first |-> NoStr, last |-> NoStr]
StrAuthor(s) == [k |-> "str", s |-> s, first |-> NoStr, last |-> NoStr]
DictAuthor(f, l) == [k |-> "dict", s |-> <<>>, first |-> f, last |-> l]

\* confidence: key missing, or a structure whose title is missing ("-") or a level
NoConf == [has |-> FALSE, title |-> "-"]
Conf(t) == [has |-> TRUE, title |-> t]

\* the document {}
EmptyDoc ==
    [author |-> NoAuthor, title |-> NoTitle, series |-> NoStr,
     series_sequence |-> NoInt, series_index |-> NoInt,
     publish_year |-> NoInt, year |-> NoInt,
     narrator |-> NoStr, confidence |-> NoConf]

\* Python truth of d.get(key) for a string / an int value
TruthyStr(o) == o.has /\ o.s # <<>>
TruthyInt(o) == o.has /\ o.n # 0

\* Python truth of a title structure: a dict is true when it has a key
TruthyDict(t) == t.main.has \/ t.subtitle.has

\* `not ai_metadata`: the dict has no key at all
IsEmptyDoc(d) ==
    /\ d.author.k = "none" /\ d.title.k = "none" /\ ~d.series.has
    /\ ~d.series_sequence.has /\ ~d.series_index.has
    /\ ~d.publish_year.has /\ ~d.year.has
    /\ ~d.narrator.has /\ ~d.confidence.has

----------------------------------------------------------------------------
\* organizer.py

Ok(s) == [ok |-> TRUE, v |-> s]
\* an exception leaving the function (AttributeError)
Raised == [ok |-> FALSE, v |-> <<>>]

\* a or b on two optional ints
OrInt(a, b) == IF TruthyInt(a) THEN a ELSE b

\* the parts list after the "Volume", "Year", "Title", "Subtitle" blocks
TitleParts(m) ==
    LET series_index == OrInt(m.series_sequence, m.series_index)
        year         == OrInt(m.publish_year, m.year)
        vol   == IF TruthyInt(series_index)
                    THEN << <<"V", "o", "l", " ">> \o IntToStr(series_index.n) >>
                    ELSE <<>>
        yr    == IF TruthyInt(year) THEN <<IntToStr(year.n)>> ELSE <<>>
        ttl   == IF TruthyStr(m.title.main) THEN <<sanitize(m.title.main.s)>>
                 ELSE <<<<"U", "n", "t", "i", "t", "l", "e", "d">>>>
        sub   == IF TruthyStr(m.title.subtitle) THEN <<sanitize(m.title.subtitle.s)>>
                 ELSE <<>>
    IN  vol \o yr \o ttl \o sub

\* parts[-1] += " {narrator}"
WithNarrator(parts, m) ==
    IF TruthyStr(m.narrator)
    THEN [parts EXCEPT ![Len(parts)] = @ \o <<" ", "{">> \o sanitize(m.narrator.s) \o <<"}">>]
    ELSE parts

\* organizer.format_title_folder
\*   line 23: meta.get("title", {}).get("main") raises on a str title;
\*            with main missing or "", title_main is the title dict itself,
\*   line 25: and sanitize(dict) raises when that dict is non-empty.
format_title_folder(m) ==
    IF m.title.k = "str" THEN Raised
    ELSE IF m.title.k = "dict" /\ ~TruthyStr(m.title.main) /\ TruthyDict(m.title) THEN Raised
    ELSE Ok(Join(WithNarrator(TitleParts(m), m), <<" ", "-", " ">>))

\* organize_book lines 44-48: the author folder
AuthorFolder(m) ==
    IF m.author.k = "str" THEN sanitize(m.author.s)
    ELSE sanitize(Strip(m.author.last.s \o <<",", " ">> \o m.author.first.s))

\* organize_book lines 51-56: the series folder, <<>> of them when there is no series
SeriesFolders(m) == IF TruthyStr(m.series) THEN <<sanitize(m.series.s)>> ELSE <<>>

\* os.path.join(base, *segments) as the directory it names: an empty segment adds no level
PathJoin(segs) == SelectSeq(segs, LAMBDA s : s # <<>>)

\* organize_book lines 44-60: the segments and the target directory under OUTPUT_PATH
PlanTarget(m) ==
    LET t == format_title_folder(m)
    IN  IF ~t.ok THEN [ok |-> FALSE, author |-> <<>>, series |-> <<>>, title |-> <<>>, dir |-> <<>>]
        ELSE [ok     |-> TRUE,
              author |-> AuthorFolder(m),
              series |-> SeriesFolders(m),
              title  |-> t.v,
              dir    |-> PathJoin(<<AuthorFolder(m)>> \o SeriesFolders(m) \o <<t.v>>)]

----------------------------------------------------------------------------
\* The input tree and the resolver

\* the audio folders under INPUT_PATH
Folders == {"Author/BookA", "Author/BookB"}

\* the orders in which os.walk may yield them: os.scandir gives the entries of
\* Author/ in the order of the file system
Scans == {<<"Author/BookA", "Author/BookB">>, <<"Author/BookB", "Author/BookA">>}

\* the book files of a folder
Files(f) == IF f = "Author/BookA" THEN {"chapter1.mp3", "cover.jpg"} ELSE {"part1.m4b"}

BookDoc(c) ==
    [EmptyDoc EXCEPT !.author = DictAuthor(SomeStr(<<"J">>), SomeStr(<<"A">>)),
                     !.title = DictTitle(SomeStr(<<"E">>), NoStr),
                     !.confidence = c]

\* what the resolver may answer for a folder; {} stands for a timeout, a network
\* error and an unparsable answer as well (ai_client.py lines 57-60)
RespDocs ==
    { EmptyDoc,
      BookDoc(Conf("high")), BookDoc(Conf("very_high")),
      BookDoc(Conf("low")), BookDoc(Conf("medium")),
      BookDoc(Conf("-")), BookDoc(NoConf),
      [BookDoc(Conf("high")) EXCEPT !.title = StrTitle(<<"E">>)] }

\* the resolver's answer for a folder: drawn when the folder is first asked about and
\* repeated on every later call (the resolver's responses do not change between runs)
NotAsked == [asked |-> FALSE, doc |-> EmptyDoc]
Asked(d) == [asked |-> TRUE, doc |-> d]

----------------------------------------------------------------------------
\* tracker.py

\* a missing key of a tracker entry
None == "-"

\* tracker.get(relpath, {}) of a path the tracker does not hold
NoEntry ==
    [status |-> None, timestamp |-> 0, reason |-> None,
     ai_confidence |-> None, output_path |-> None]

NoExtra == [reason |-> None, ai_confidence |-> None, output_path |-> None]

EmptyTracker == [f \in Folders |-> NoEntry]

\* tracker.get_status
get_status(t, relpath) == t[relpath].status

\* tracker.mark_status lines 23-27: the dict after the assignment
mark_status(t, relpath, status, now, extra) ==
    [t EXCEPT ![relpath] =
        [status |-> status, timestamp |-> now, reason |-> extra.reason,
         ai_confidence |-> extra.ai_confidence, output_path |-> extra.output_path]]

\* tracker.json between open(.., "w") and the end of json.dump: truncated, no JSON
Truncated == [valid |-> FALSE, content |-> EmptyTracker]

\* tracker.json after save_tracker(t) returned
Saved(t) == [valid |-> TRUE, content |-> t]

----------------------------------------------------------------------------
\* main.py

\* most marks (timestamps) in one behaviour
MaxClock == 3

\* a short-circuit that forgets the "skipped" branch (lines 25-27)
ShortCircuitsProcessedOnly(force_override, status) ==
    ~force_override /\ status = "processed"

\* main.py lines 22-27: the folder is skipped without asking the resolver
ShortCircuits(force_override, status) ==
    ~force_override /\ status \in {"processed", "skipped"}

\* main.py line 39
Confidence(m) ==
    IF m.confidence.has /\ m.confidence.title # "-" THEN m.confidence.title ELSE "low"

\* a gate that rejects "low" alone instead of everything but "high" / "very_high"
GateRejectsLowOnly(force_override, confidence) ==
    ~force_override /\ confidence = "low"

\* main.py line 40: the confidence gate rejects the folder
GateRejects(force_override, confidence) ==
    ~force_override /\ confidence \notin {"high", "very_high"}

Book == scan[idx]

env == <<force, resp>>

\* the memory of a process, and the history of its run, when no process runs
NoProcess ==
    /\ dry' = FALSE
    /\ idx' = 1
    /\ pending' = {}
    /\ tracker' = EmptyTracker
    /\ meta' = EmptyDoc
    /\ loaded' = EmptyTracker
    /\ outStart' = {}
    /\ resolved' = {}
    /\ orgCalled' = {}
    /\ orgDone' = {}

\* the process is gone: main() had returned (how = "live", "dry"), or an exception
\* or a kill ended it (how = "no")
ProcessEnds(how) ==
    /\ pc' = "idle"
    /\ rerun' = how
    /\ NoProcess

\* main.py line 14: load_tracker(); json.load raises on a truncated file
StartRun(d) ==
    /\ pc = "idle"
    /\ IF disk.valid
       THEN /\ pc' = "loop"
            /\ dry' = d
            /\ idx' = 1
            /\ tracker' = disk.content
            /\ loaded' = disk.content
            /\ outStart' = output
            /\ UNCHANGED <<rerun, pending, meta, resolved, orgCalled, orgDone>>
       ELSE ProcessEnds("no")
    /\ UNCHANGED <<disk, output, clock>>
    /\ UNCHANGED env
    /\ UNCHANGED synthVars
    /\ UNCHANGED scan

\* main.py lines 22-27
ShortCircuit ==
    /\ pc = "loop"
    /\ idx <= Len(scan)
    /\ ShortCircuits(force[Book], get_status(tracker, Book))
    /\ idx' = idx + 1
    /\ UNCHANGED <<pc, rerun, pending, dry, tracker, disk, output, meta, clock,
                   loaded, outStart, resolved, orgCalled, orgDone>>
    /\ UNCHANGED env
    /\ UNCHANGED synthVars
    /\ UNCHANGED scan

\* main.py lines 29-32: the resolver is asked
Resolve ==
    /\ pc = "loop"
    /\ idx <= Len(scan)
    /\ ~ShortCircuits(force[Book], get_status(tracker, Book))
    /\ clock < MaxClock
    /\ \E d \in RespDocs :
        /\ resp[Book].asked => d = resp[Book].doc
        /\ meta' = d
        /\ resp' = [resp EXCEPT ![Book] = Asked(d)]
    /\ resolved' = resolved \cup {Book}
    /\ pc' = "decide"
    /\ UNCHANGED <<rerun, pending, dry, idx, tracker, disk, output, clock, force,
                   loaded, outStart, orgCalled, orgDone>>
    /\ UNCHANGED synthVars
    /\ UNCHANGED scan

\* the assignment of mark_status (lines 23-27); save_tracker follows in SaveOpen, SaveWrite
Mark(status, extra) ==
    /\ tracker' = mark_status(tracker, Book, status, clock, extra)
    /\ clock' = clock + 1
    /\ pc' = "open"
    /\ UNCHANGED <<rerun, pending, dry, idx, disk, output, meta,
                   loaded, outStart, resolved, orgCalled, orgDone>>
    /\ UNCHANGED env
    /\ UNCHANGED synthVars
    /\ UNCHANGED scan

\* the no-metadata branch without its `continue`: line 39 reads "low" from {} and
\* line 42 overwrites the entry (line 36's save is followed by line 42's)
NoMetadataFallsThrough ==
    /\ pc = "decide"
    /\ IsEmptyDoc(meta)
    /\ Mark("skipped", [NoExtra EXCEPT !.ai_confidence = "low"])

\* main.py lines 34-37
NoMetadata ==
    /\ pc = "decide"
    /\ IsEmptyDoc(meta)
    /\ Mark("skipped", [NoExtra EXCEPT !.reason = "no metadata"])

\* main.py lines 39-43
LowConfidence ==
    /\ pc = "decide"
    /\ ~IsEmptyDoc(meta)
    /\ GateRejects(force[Book], Confidence(meta))
    /\ Mark("skipped", [NoExtra EXCEPT !.ai_confidence = Confidence(meta)])

\* main.py lines 45-46
DryRunLog ==
    /\ pc = "decide"
    /\ ~IsEmptyDoc(meta)
    /\ ~GateRejects(force[Book], Confidence(meta))
    /\ dry
    /\ idx' = idx + 1
    /\ pc' = "loop"
    /\ UNCHANGED <<rerun, pending, dry, tracker, disk, output, meta, clock,
                   loaded, outStart, resolved, orgCalled, orgDone>>
    /\ UNCHANGED env
    /\ UNCHANGED synthVars
    /\ UNCHANGED scan

\* organizer.py lines 64-66: the regular files of the folder, the marker among them
ListDir(f) == Files(f) \cup (IF force[f] THEN {".force_process"} ELSE {})

\* the files organize_book copies into dir
Copies(dir, files) == {[dir |-> dir, file |-> x] : x \in files}

\* main.py line 48 with organizer.py lines 42-63: organize_book is called, computes
\* the target and creates its directories
Organize ==
    /\ pc = "decide"
    /\ ~IsEmptyDoc(meta)
    /\ ~GateRejects(force[Book], Confidence(meta))
    /\ ~dry
    /\ PlanTarget(meta).ok
    /\ pending' = ListDir(Book)
    /\ orgCalled' = orgCalled \cup {Book}
    /\ pc' = "copying"
    /\ UNCHANGED <<rerun, dry, idx, tracker, disk, output, meta, clock,
                   loaded, outStart, resolved, orgDone>>
    /\ UNCHANGED env
    /\ UNCHANGED synthVars
    /\ UNCHANGED scan

\* organizer.py lines 64-67: shutil.copy2 of one file, in os.listdir order
CopyFile ==
    /\ pc = "copying"
    /\ \E x \in pending :
        /\ output' = output \cup Copies(PlanTarget(meta).dir, {x})
        /\ pending' = pending \ {x}
    /\ UNCHANGED <<pc, rerun, dry, idx, tracker, disk, meta, clock,
                   loaded, outStart, resolved, orgCalled, orgDone>>
    /\ UNCHANGED env
    /\ UNCHANGED synthVars
    /\ UNCHANGED scan

\* organizer.py line 64: the listing is exhausted and organize_book returns
OrganizeReturns ==
    /\ pc = "copying"
    /\ pending = {}
    /\ orgDone' = orgDone \cup {Book}
    /\ pc' = "copied"
    /\ UNCHANGED <<rerun, pending, dry, idx, tracker, disk, output, meta, clock,
                   loaded, outStart, resolved, orgCalled>>
    /\ UNCHANGED env
    /\ UNCHANGED synthVars
    /\ UNCHANGED scan

\* organize_book's exception caught and logged around line 48, line 49 still reached
OrganizeRaisesSwallowed ==
    /\ pc = "decide"
    /\ ~IsEmptyDoc(meta)
    /\ ~GateRejects(force[Book], Confidence(meta))
    /\ ~dry
    /\ orgCalled' = orgCalled \cup {Book}
    /\ pc' = "copied"
    /\ UNCHANGED <<rerun, pending, dry, idx, tracker, disk, output, meta, clock,
                   loaded, outStart, resolved, orgDone>>
    /\ UNCHANGED env
    /\ UNCHANGED synthVars
    /\ UNCHANGED scan

\* main.py line 48: organize_book raises before it copies anything and the exception
\* leaves main(): format_title_folder raised (organizer.py line 23), or os.makedirs or
\* os.listdir failed
OrganizeRaises ==
    /\ pc = "decide"
    /\ ~IsEmptyDoc(meta)
    /\ ~GateRejects(force[Book], Confidence(meta))
    /\ ~dry
    /\ orgCalled' = orgCalled \cup {Book}
    /\ pc' = "raised"
    /\ UNCHANGED <<rerun, pending, dry, idx, tracker, disk, output, meta, clock,
                   loaded, outStart, resolved, orgDone>>
    /\ UNCHANGED env
    /\ UNCHANGED synthVars
    /\ UNCHANGED scan

\* organizer.py line 67: shutil.copy2 of a file fails and the exception leaves
\* main(); the destination exists if copy2 had created it before it failed
CopyRaises ==
    /\ pc = "copying"
    /\ \E x \in pending :
        \/ output' = output
        \/ output' = output \cup Copies(PlanTarget(meta).dir, {x})
    /\ pc' = "raised"
    /\ UNCHANGED <<rerun, pending, dry, idx, tracker, disk, meta, clock,
                   loaded, outStart, resolved, orgCalled, orgDone>>
    /\ UNCHANGED env
    /\ UNCHANGED synthVars
    /\ UNCHANGED scan

\* main.py lines 49-52
MarkProcessed ==
    /\ pc = "copied"
    /\ Mark("processed", [NoExtra EXCEPT !.ai_confidence = Confidence(meta),
                                         !.output_path = "OUTPUT_PATH"])

\* tracker.py line 16: open(TRACKER_FILE, "w") truncates the file
SaveOpen ==
    /\ pc = "open"
    /\ disk' = Truncated
    /\ pc' = "write"
    /\ UNCHANGED <<rerun, pending, dry, idx, tracker, output, meta, clock,
                   loaded, outStart, resolved, orgCalled, orgDone>>
    /\ UNCHANGED env
    /\ UNCHANGED synthVars
    /\ UNCHANGED scan

\* tracker.py line 17: json.dump and close; mark_status returns, `continue`
SaveWrite ==
    /\ pc = "write"
    /\ disk' = Saved(tracker)
    /\ idx' = idx + 1
    /\ pc' = "loop"
    /\ UNCHANGED <<rerun, pending, dry, tracker, output, meta, clock,
                   loaded, outStart, resolved, orgCalled, orgDone>>
    /\ UNCHANGED env
    /\ UNCHANGED synthVars
    /\ UNCHANGED scan

\* main.py line 54: the scan is exhausted
Finish ==
    /\ pc = "loop"
    /\ idx > Len(scan)
    /\ pc' = "done"
    /\ UNCHANGED <<rerun, pending, dry, idx, tracker, disk, output, meta, clock,
                   loaded, outStart, resolved, orgCalled, orgDone>>
    /\ UNCHANGED env
    /\ UNCHANGED synthVars
    /\ UNCHANGED scan

\* main() returns and the process exits
Exit ==
    /\ pc = "done"
    /\ ProcessEnds(IF dry THEN "dry" ELSE "live")
    /\ UNCHANGED <<disk, output, clock>>
    /\ UNCHANGED env
    /\ UNCHANGED synthVars
    /\ UNCHANGED scan

\* the process is killed in the middle of a run (power loss, SIGKILL)
Crash ==
    /\ pc \in {"loop", "decide", "copying", "copied", "open", "write"}
    /\ pc' = "killed"
    /\ UNCHANGED <<rerun, pending, dry, idx, tracker, disk, output, meta, clock,
                   loaded, outStart, resolved, orgCalled, orgDone>>
    /\ UNCHANGED env
    /\ UNCHANGED synthVars
    /\ UNCHANGED scan

\* the process that raised or was killed is gone, and its memory with it
ProcessGone ==
    /\ pc \in {"raised", "killed"}
    /\ ProcessEnds("no")
    /\ UNCHANGED <<disk, output, clock>>
    /\ UNCHANGED env
    /\ UNCHANGED synthVars
    /\ UNCHANGED scan

\* between runs the user adds or removes a .force_process marker
SetMarker(f, b) ==
    /\ pc = "idle"
    /\ force[f] # b
    /\ force' = [force EXCEPT ![f] = b]
    /\ rerun' = "no"
    /\ UNCHANGED <<pc, pending, dry, idx, tracker, disk, output, resp, meta, clock,
                   loaded, outStart, resolved, orgCalled, orgDone>>
    /\ UNCHANGED synthVars
    /\ UNCHANGED scan

----------------------------------------------------------------------------
\* The synthesizer on its own: organizer.py applied to a metadata document

Ints(pool) == {NoInt} \cup {SomeInt(n) : n \in pool}
OptStrs(pool) == {NoStr} \cup {SomeStr(s) : s \in pool}

Titles ==
    {NoTitle} \cup {StrTitle(s) : s \in Strs}
              \cup {DictTitle(m, sub) : m \in OptStrs(Strs), sub \in OptStrs(SampleStrs)}

Authors ==
    {NoAuthor} \cup {StrAuthor(s) : s \in Strs}
               \cup {DictAuthor(f, l) : f \in OptStrs(SampleStrs), l \in OptStrs(Strs)}

\* documents that vary what format_title_folder reads
TitleDocs ==
    {[EmptyDoc EXCEPT !.title = t, !.narrator = n, !.series_sequence = q,
                      !.series_index = i, !.publish_year = y, !.year = z] :
        t \in Titles, n \in OptStrs(SampleStrs), q \in Ints({0, 2}), i \in Ints({3}),
        y \in Ints({1999}), z \in Ints({0, 12})}

\* documents that vary what the author and series folders are made of
AuthorDocs ==
    {[EmptyDoc EXCEPT !.author = a, !.series = s, !.confidence = c] :
        a \in Authors, s \in OptStrs(SampleStrs), c \in {NoConf, Conf("high")}}

SynthInit ==
    /\ sMeta \in TitleDocs \cup AuthorDocs
    /\ sPhase = "input"
    /\ sTitle = Raised
    /\ sPlan = PlanTarget(EmptyDoc)

\* format_title_folder(sMeta)
SynthTitle ==
    /\ sPhase = "input"
    /\ sTitle' = format_title_folder(sMeta)
    /\ sPhase' = "titled"
    /\ UNCHANGED <<sMeta, sPlan>>
    /\ UNCHANGED orchVars

\* organize_book(source, sMeta, OUTPUT_PATH) up to line 60
SynthPlan ==
    /\ sPhase = "titled"
    /\ sPlan' = PlanTarget(sMeta)
    /\ sPhase' = "planned"
    /\ UNCHANGED <<sMeta, sTitle>>
    /\ UNCHANGED orchVars

SynthIdle ==
    /\ sMeta = EmptyDoc
    /\ sPhase = "input"
    /\ sTitle = Raised
    /\ sPlan = PlanTarget(EmptyDoc)

OrchIdle ==
    /\ pc = "idle"
    /\ rerun = "no"
    /\ dry = FALSE
    /\ idx = 1
    /\ scan \in Scans
    /\ pending = {}
    /\ tracker = EmptyTracker
    /\ disk = Saved(EmptyTracker)
    /\ output = {}
    /\ force = [f \in Folders |-> FALSE]
    /\ resp = [f \in Folders |-> NotAsked]
    /\ meta = EmptyDoc
    /\ clock = 0
    /\ loaded = EmptyTracker
    /\ outStart = {}
    /\ resolved = {}
    /\ orgCalled = {}
    /\ orgDone = {}

\* first start: no tracker.json, an empty output tree, no marker
Init ==
    /\ OrchIdle
    /\ SynthIdle

Next ==
    \/ \E d \in BOOLEAN : StartRun(d)
    \/ ShortCircuit
    \/ Resolve
    \/ NoMetadata
    \/ LowConfidence
    \/ DryRunLog
    \/ Organize
    \/ CopyFile
    \/ OrganizeReturns
    \/ OrganizeRaises
    \/ CopyRaises
    \/ MarkProcessed
    \/ SaveOpen
    \/ SaveWrite
    \/ Finish
    \/ Exit
    \/ ProcessGone
    \/ \E f \in Folders, b \in BOOLEAN : SetMarker(f, b)

\* main() run any number of times, each run to its return or to an exception
Spec == Init /\ [][Next]_vars

NextKill ==
    \/ Next
    \/ Crash

\* the same, with the process killed at any point of a run
SpecKill == Init /\ [][NextKill]_vars

InitSynth ==
    /\ OrchIdle
    /\ SynthInit

NextSynth ==
    \/ SynthTitle
    \/ SynthPlan

SpecSynth == InitSynth /\ [][NextSynth]_vars

----------------------------------------------------------------------------
\* Properties of the orchestrator

Index(f) == CHOOSE i \in 1..Len(scan) : scan[i] = f

\* the for loop has picked f up in this run
Reached(f) == pc # "idle" /\ Index(f) <= idx

\* the run is past its decision on f: a branch of lines 34-52 was taken for it
Handled(f) == f \in resolved /\ ~(pc \in {"decide", "copying"} /\ Book = f)

\* main() is over: it returned, or an exception left it
RunOver == pc \in {"done", "raised"}

\* confidence.title as the resolver gave it, "low" when it gave none
Observed(m) ==
    IF m.confidence.has /\ m.confidence.title # "-" THEN m.confidence.title ELSE "low"

\* organize_book raised for f because the file system failed (makedirs, copy2), not
\* because of the document
FileSystemFailed(f) == pc = "raised" /\ Book = f /\ PlanTarget(resp[f].doc).ok

\* files of folder f copied into the output tree during this run
CopiedFrom(f) == {o \in output \ outStart : o.file \in Files(f)}

\* C1 (as claimed): whenever main() has run to its end after an earlier run that
\* returned, with the input tree unchanged in between, the run short-circuited
\* every folder: the tracker, in memory and persisted, is the one it loaded, the
\* resolver was not asked and organize_book was not called.
C1_SecondRunIsNoOp ==
    (pc = "done" /\ rerun # "no") =>
        /\ tracker = loaded
        /\ disk = Saved(loaded)
        /\ resolved = {}
        /\ orgCalled = {}

\* C1 (amended): the same, for a tree in which no folder holds the .force_process
\* marker and a first run that was live: the second run short-circuits every
\* folder, leaves the tracker as it loaded it and copies nothing.
C1_SecondRunIsNoOpLiveUnmarked ==
    (pc = "done" /\ rerun = "live" /\ \A f \in Folders : ~force[f]) =>
        /\ tracker = loaded
        /\ disk = Saved(loaded)
        /\ resolved = {}
        /\ orgCalled = {}
        /\ output = outStart
        /\ \A f \in Folders : loaded[f].status \in {"processed", "skipped"}

C1_Witness ==
    /\ pc = "done" /\ rerun = "live" /\ ~dry
    /\ \A f \in Folders : ~force[f]
    /\ \E f, g \in Folders : loaded[f].status = "processed" /\ loaded[g].status = "skipped"
    /\ resolved = {}
    /\ disk = Saved(loaded)

\* C2 (as claimed): during a dry run the tracker, in memory and persisted, and the
\* output tree are what they were when the run started, and organize_book is not
\* called.
C2_DryRunTouchesNothing ==
    (dry /\ pc # "idle") =>
        /\ tracker = loaded
        /\ disk = Saved(loaded)
        /\ output = outStart
        /\ orgCalled = {}

\* C3: a folder without the marker for which the resolver gave a non-empty document
\* whose confidence.title is missing or not "high" / "very_high" is never handed to
\* organize_book and never recorded as processed; once decided, its entry is
\* skipped with the observed confidence ("low" when missing) recorded.
C3_ConfidenceGate ==
    \A f \in resolved :
        LET m == resp[f].doc
        IN  (~force[f] /\ ~IsEmptyDoc(m) /\ Observed(m) \notin {"high", "very_high"}) =>
                /\ f \notin orgCalled
                /\ CopiedFrom(f) = {}
                /\ tracker[f].status # "processed"
                /\ disk.valid => disk.content[f].status # "processed"
                /\ Handled(f) =>
                      /\ tracker[f].status = "skipped"
                      /\ tracker[f].ai_confidence = Observed(m)
                      /\ tracker[f].reason = None
                      /\ tracker[f].output_path = None

C3_Witness ==
    /\ pc = "done" /\ ~dry
    /\ \E f, g \in resolved :
        /\ ~force[f] /\ resp[f].doc = BookDoc(NoConf)
        /\ tracker[f].status = "skipped" /\ tracker[f].ai_confidence = "low"
        /\ ~force[g] /\ resp[g].doc = BookDoc(Conf("medium"))
        /\ disk.content[g].ai_confidence = "medium"

\* C4 (as claimed): when a live run is over, every folder with the marker that the
\* loop reached was handed to the resolver and, the resolver's document being
\* non-empty, to organize_book, and is recorded as processed by this run.  The
\* claim is read in its favour: a run that a failing file system ended is not held
\* against it.
C4_MarkedFolderProcessed ==
    (RunOver /\ ~dry) =>
        \A f \in Folders :
            (force[f] /\ Reached(f)) =>
                /\ f \in resolved
                /\ ~IsEmptyDoc(resp[f].doc) =>
                      /\ f \in orgCalled
                      /\ \/ FileSystemFailed(f)
                         \/ /\ tracker[f].status = "processed"
                            /\ disk.content[f].status = "processed"

\* C5 (as claimed): when the process is killed, every entry the tracker in memory
\* holds, except at most that of the folder in flight, is in a tracker.json that
\* load_tracker() can read.
C5_KillLosesOnlyInFlight ==
    pc = "killed" =>
        \A f \in Folders :
            \/ idx <= Len(scan) /\ f = Book
            \/ tracker[f].status = None
            \/ disk.valid /\ disk.content[f] = tracker[f]

\* C6: a folder for which the resolver gave the empty document (a timeout, an error,
\* {}) has no file copied and no organize_book call; its entry becomes skipped with
\* reason "no metadata", marker or not, and the loop moves on to the next folder
\* instead of ending the run.
C6_ResolverFailure ==
    \A f \in resolved :
        IsEmptyDoc(resp[f].doc) =>
            /\ f \notin orgCalled
            /\ CopiedFrom(f) = {}
            /\ ~(pc = "raised" /\ Book = f)
            /\ Handled(f) =>
                  /\ tracker[f].status = "skipped"
                  /\ tracker[f].reason = "no metadata"
                  /\ tracker[f].ai_confidence = None
                  /\ tracker[f].output_path = None
                  /\ \/ pc \in {"open", "write"} /\ Book = f
                     \/ idx > Index(f) /\ (disk.valid => disk.content[f] = tracker[f])

C6_Witness ==
    /\ pc = "done"
    /\ scan[1] \in resolved /\ force[scan[1]]
    /\ IsEmptyDoc(resp[scan[1]].doc)
    /\ disk.content[scan[1]].reason = "no metadata"
    /\ scan[2] \in orgDone
    /\ disk.content[scan[2]].status = "processed"

\* C9: an entry this run set to processed belongs to a folder organize_book returned
\* for in this run; and when organize_book raised, the run is over with the entry of
\* the folder in flight as it was loaded and every entry set earlier in the run
\* persisted.
C9_OrganizeBeforeMark ==
    /\ \A f \in Folders :
          (tracker[f].status = "processed" /\ tracker[f] # loaded[f]) => f \in orgDone
    /\ pc = "raised" =>
          /\ Book \in orgCalled \ orgDone
          /\ tracker[Book] = loaded[Book]
          /\ disk = Saved(tracker)

C9_Witness ==
    /\ pc = "raised" /\ idx = 2
    /\ scan[1] \in orgDone
    /\ tracker[scan[1]].status = "processed"
    /\ loaded[scan[1]].status = None
    /\ disk.content[scan[1]].status = "processed"
    /\ output # outStart

\* C10 (as claimed): no step of main() assigns force, so when a run is over every
\* folder with the marker that the loop reached was handed to the resolver again
\* and, outside dry-run, its entry was written anew, with a timestamp later than
\* the one loaded.  The claim is read in its favour: a run that a failing file
\* system ended is not held against it.
C10_MarkedFolderRewritten ==
    RunOver =>
        \A f \in Folders :
            (force[f] /\ Reached(f)) =>
                /\ f \in resolved
                /\ (~dry /\ ~FileSystemFailed(f)) =>
                      /\ tracker[f].status # None
                      /\ tracker[f] # loaded[f]
                      /\ loaded[f].status # None => tracker[f].timestamp > loaded[f].timestamp
                      /\ disk = Saved(tracker)

----------------------------------------------------------------------------
\* Properties of the synthesizer

Untitled == <<"U", "n", "t", "i", "t", "l", "e", "d">>

\* the main title the claim reads: the plain string, or the structure's main
ClaimedMain(m) == IF m.title.k = "str" THEN SomeStr(m.title.s) ELSE m.title.main

\* the title segment as C7 words it
ClaimedTitle(m) ==
    LET seq   == OrInt(m.series_sequence, m.series_index)
        year  == OrInt(m.publish_year, m.year)
        parts == (IF TruthyInt(seq) THEN << <<"V", "o", "l", " ">> \o IntToStr(seq.n) >> ELSE <<>>)
                 \o (IF TruthyInt(year) THEN <<IntToStr(year.n)>> ELSE <<>>)
                 \o (IF TruthyStr(ClaimedMain(m)) THEN <<sanitize(ClaimedMain(m).s)>>
                     ELSE <<Untitled>>)
                 \o (IF TruthyStr(m.title.subtitle) THEN <<sanitize(m.title.subtitle.s)>>
                     ELSE <<>>)
        last  == IF TruthyStr(m.narrator)
                    THEN parts[Len(parts)] \o <<" ", "{">> \o sanitize(m.narrator.s) \o <<"}">>
                    ELSE parts[Len(parts)]
    IN  Join(SubSeq(parts, 1, Len(parts) - 1) \o <<last>>, <<" ", "-", " ">>)

\* C7 (as claimed): for every document, title a plain string or a structure,
\* format_title_folder returns "Vol n", year, sanitized main title or "Untitled",
\* sanitized subtitle, joined by " - ", the narrator appended to the last of them.
C7_TitleSegment ==
    sPhase # "input" => sTitle = Ok(ClaimedTitle(sMeta))

\* C8 (as claimed): no segment of a synthesized path is the empty string, and the
\* document without title, author and year gets the author segment "Unknown, "
\* and the title segment "Untitled".
C8_NonEmptyFallback ==
    sPhase = "planned" =>
        /\ sPlan.ok
        /\ sPlan.author # <<>>
        /\ sPlan.title # <<>>
        /\ \A i \in 1..Len(sPlan.series) : sPlan.series[i] # <<>>
        /\ (sMeta.title.k = "none" /\ sMeta.author.k = "none" /\ sMeta.narrator = NoStr
            /\ ~TruthyInt(OrInt(sMeta.publish_year, sMeta.year))
            /\ ~TruthyInt(OrInt(sMeta.series_sequence, sMeta.series_index))) =>
              /\ sPlan.author = <<"U", "n", "k", "n", "o", "w", "n", ",", " ">>
              /\ sPlan.title = Untitled

====
